---- MODULE Spec2Model ----
(***************************************************************************)
(* Model of the label reconciliation helpers (SetLabels, SetLabelsDiff)    *)
(* and of the storage-bucket resource (Create, Update, Delete) of the      *)
(* provider.  Three specifications share the module: LabelsSpec,           *)
(* DeleteSpec (FairDeleteSpec adds scheduling fairness) and BucketSpec.    *)
(***************************************************************************)
EXTENDS Integers, Sequences, FiniteSets, TLC

VARIABLES
    \* ---- label reconciler (schema.ResourceDiff / schema.ResourceData) ----
    DefaultLabels,          \* config.DefaultLabels, fixed for the provider
    labels,                 \* value of the "labels" field
    labelsNil,              \* TRUE when d.Get("labels") yields nil
    terraform_labels,       \* value of the "terraform_labels" field
    effective_labels,       \* value of the "effective_labels" field
    o_labels,               \* the fields as they were before the last call
    o_labelsNil,
    o_terraform_labels,
    o_effective_labels,
    remoteLabels,           \* labels argument of the last SetLabels call
    remoteNil,              \* TRUE when that argument was a nil map
    lblOps,                 \* names of the calls made so far, oldest first
    \* ---- resourceStorageBucketDelete ----
    force_destroy,          \* d.Get("force_destroy")
    numCPU,                 \* runtime.NumCPU()
    bucketObjects,          \* object versions the remote bucket holds
    everPresent,            \* object versions the bucket has ever held
    pc,                     \* position of the Delete call
    items,                  \* res.Items of the last Objects.List call
    nextItem,               \* index in items of the next object to submit
    waiting,                \* tasks submitted to the pool, not yet started
    running,                \* tasks a worker of the pool is executing
    deleteCalls,            \* Objects.Delete calls issued, per object version
    failedDeletes,          \* object versions whose Objects.Delete call failed
    listed,                 \* object versions some Objects.List call returned
    bucketDeleteCalls,      \* Buckets.Delete calls issued
    bucketOutcomes,         \* outcome of each Buckets.Delete call, oldest first
    lastList,               \* the last Objects.List call: "none", "ok", "error"
    err,                    \* what Delete returned ("none" while it runs)
    \* ---- resourceStorageBucketCreate / resourceStorageBucketUpdate ----
    created,                \* the resource has an id (d.SetId was reached)
    state,                  \* the configuration the framework has stored
    prior,                  \* the stored configuration the last call started from
    config,                 \* the configuration the last call was given
    bktOp,                  \* the last call: "none", "Create", "Update"
    projectOk,              \* getProject succeeded in the last Create
    sb,                     \* the storage.Bucket the last call sent
    insertCalls,            \* Buckets.Insert calls the last call issued
    patchCalls,             \* Buckets.Patch calls the last call issued
    bktErr                  \* what the last call returned

lblVars == <<DefaultLabels, labels, labelsNil, terraform_labels, effective_labels,
             o_labels, o_labelsNil, o_terraform_labels, o_effective_labels,
             remoteLabels, remoteNil, lblOps>>

delVars == <<force_destroy, numCPU, bucketObjects, everPresent, pc, items, nextItem,
             waiting, running, deleteCalls, failedDeletes, listed,
             bucketDeleteCalls, bucketOutcomes, lastList, err>>

bktVars == <<created, state, prior, config, bktOp, projectOk, sb, insertCalls,
             patchCalls, bktErr>>

vars == <<lblVars, delVars, bktVars>>

(***************************************************************************)
(* Bounds and value sets                                                   *)
(***************************************************************************)
MaxPasses == 2
NumObjects == 3
MaxCPU == 3
MaxCalls == 2
MaxRetries == 1
MaxWebsiteBlocks == 2
MaxChanged == 1

Keys == {"env", "team"}
Vals == {"prod", "x"}
PriorVals == {"x"}

\* map[string]string over a key set: a function whose domain is the key set
MapsOver(K, V) == UNION {[S -> V] : S \in SUBSET K}

EmptyMap == <<>>

(***************************************************************************)
(* Label reconciler                                                        *)
(***************************************************************************)

\* for k, v := range src { dst[k] = v }
Overlay(dst, src) ==
    [k \in DOMAIN dst \cup DOMAIN src |->
        IF k \in DOMAIN src THEN src[k] ELSE dst[k]]

\* the map m without the keys in S (delete(m, k) for every k in S)
Without(m, S) == [k \in DOMAIN m \ S |-> m[k]]

\* SetLabels lines 19-27: the value written to the field `field`.
\* d.GetOk is false for an empty map; labels[k] of a missing key is "".
SetLabelsMutAll(remote, isNil, field) ==
    IF isNil THEN EmptyMap ELSE remote

\* SetLabels without the test `labels != nil` of line 22
SetLabelsMutNoNilCheck(remote, isNil, field) ==
    IF field # EmptyMap
    THEN [k \in DOMAIN field |-> IF k \in DOMAIN remote THEN remote[k] ELSE ""]
    ELSE EmptyMap

SetLabelsValue(remote, isNil, field) ==
    IF field # EmptyMap /\ ~isNil
    THEN [k \in DOMAIN field |-> IF k \in DOMAIN remote THEN remote[k] ELSE ""]
    ELSE EmptyMap

\* SetLabelsDiff lines 36-49: provider defaults first, user labels over them.
terraformLabelsMutDefaultsWin(defaults, user) == Overlay(user, defaults)

terraformLabels(defaults, user) == Overlay(defaults, user)

\* SetLabelsDiff lines 55-66: o, n are the old and new terraform_labels,
\* eff is d.Get("effective_labels").
effectiveLabelsMutNoDelete(o, n, eff) == Overlay(eff, n)

effectiveLabelsMutInverted(o, n, eff) ==
    Without(Overlay(eff, n), {k \in DOMAIN o : k \in DOMAIN n})

effectiveLabels(o, n, eff) ==
    Without(Overlay(eff, n), {k \in DOMAIN o : k \notin DOMAIN n})

\* the other components at rest
LabelsIdle ==
    /\ DefaultLabels = EmptyMap
    /\ labels = EmptyMap
    /\ labelsNil = FALSE
    /\ terraform_labels = EmptyMap
    /\ effective_labels = EmptyMap
    /\ o_labels = EmptyMap
    /\ o_labelsNil = FALSE
    /\ o_terraform_labels = EmptyMap
    /\ o_effective_labels = EmptyMap
    /\ remoteLabels = EmptyMap
    /\ remoteNil = FALSE
    /\ lblOps = <<>>

DeleteIdle ==
    /\ force_destroy = FALSE
    /\ numCPU = 1
    /\ bucketObjects = {}
    /\ everPresent = {}
    /\ pc = "idle"
    /\ items = <<>>
    /\ nextItem = 1
    /\ waiting = <<>>
    /\ running = {}
    /\ deleteCalls = <<>>
    /\ failedDeletes = {}
    /\ listed = {}
    /\ bucketDeleteCalls = 0
    /\ bucketOutcomes = <<>>
    /\ lastList = "none"
    /\ err = "none"

BucketIdle ==
    /\ created = FALSE
    /\ state = <<>>
    /\ prior = <<>>
    /\ config = <<>>
    /\ bktOp = "none"
    /\ projectOk = FALSE
    /\ sb = <<>>
    /\ insertCalls = 0
    /\ patchCalls = 0
    /\ bktErr = "none"

LabelsInit ==
    /\ DefaultLabels \in MapsOver(Keys, Vals)
    /\ terraform_labels \in MapsOver(Keys, PriorVals)
    /\ effective_labels \in MapsOver(Keys, PriorVals)
    \* SetLabelsDiff puts every key of "labels" into "terraform_labels" and
    \* SetLabels keeps the key sets, so a stored state has them nested
    /\ labels \in MapsOver(DOMAIN terraform_labels, PriorVals)
    /\ labelsNil = FALSE
    /\ o_labels = EmptyMap
    /\ o_labelsNil = FALSE
    /\ o_terraform_labels = EmptyMap
    /\ o_effective_labels = EmptyMap
    /\ remoteLabels = EmptyMap
    /\ remoteNil = FALSE
    /\ lblOps = <<>>
    /\ DeleteIdle
    /\ BucketIdle

KeepOld ==
    /\ o_labels' = labels
    /\ o_labelsNil' = labelsNil
    /\ o_terraform_labels' = terraform_labels
    /\ o_effective_labels' = effective_labels

\* SetLabelsDiff (lines 32-73) for the new configuration value `raw`
\* (rawNil: d.Get("labels") is nil, the function returns at line 43)
SetLabelsDiff(raw, rawNil) ==
    /\ Len(lblOps) < MaxPasses
    /\ KeepOld
    /\ labels' = raw
    /\ labelsNil' = rawNil
    /\ IF rawNil
       THEN UNCHANGED <<terraform_labels, effective_labels>>
       ELSE /\ terraform_labels' = terraformLabels(DefaultLabels, raw)
            /\ effective_labels' =
                 effectiveLabels(terraform_labels, terraform_labels', effective_labels)
    /\ lblOps' = Append(lblOps, "SetLabelsDiff")
    /\ UNCHANGED <<DefaultLabels, remoteLabels, remoteNil>>
    /\ UNCHANGED <<delVars, bktVars>>

\* The READ method of a resource: SetLabels (lines 18-30) for the lineage
\* "labels" and for the lineage "terraform_labels", with the labels the API
\* returned (remote; isNil: a nil map).
Read(remote, isNil) ==
    /\ Len(lblOps) < MaxPasses
    /\ KeepOld
    /\ labels' = SetLabelsValue(remote, isNil, labels)
    /\ terraform_labels' = SetLabelsValue(remote, isNil, terraform_labels)
    /\ remoteLabels' = remote
    /\ remoteNil' = isNil
    /\ lblOps' = Append(lblOps, "SetLabels")
    /\ UNCHANGED <<DefaultLabels, labelsNil, effective_labels>>
    /\ UNCHANGED <<delVars, bktVars>>

LabelsNext ==
    \/ \E raw \in MapsOver(Keys, Vals) : SetLabelsDiff(raw, FALSE)
    \/ SetLabelsDiff(EmptyMap, TRUE)
    \/ \E remote \in MapsOver(Keys, Vals) : Read(remote, FALSE)
    \/ Read(EmptyMap, TRUE)

LabelsSpec == LabelsInit /\ [][LabelsNext]_vars

LastOp == IF lblOps = <<>> THEN "none" ELSE lblOps[Len(lblOps)]
PrevOp == IF Len(lblOps) < 2 THEN "none" ELSE lblOps[Len(lblOps) - 1]
RanDiff == LastOp = "SetLabelsDiff" /\ ~labelsNil

(***************************************************************************)
(* Claims about the label reconciler (checked under LabelsSpec)            *)
(***************************************************************************)

\* C3 (as stated): after SetLabelsDiff the new effective_labels equals
\* DefaultLabels merged with the user labels, the user value winning on a
\* shared key, and holds no other key, whatever the prior state was.
C3_EffectiveIsDefaultsAndUser ==
    RanDiff =>
        /\ DOMAIN effective_labels = DOMAIN DefaultLabels \cup DOMAIN labels
        /\ \A k \in DOMAIN labels : effective_labels[k] = labels[k]
        /\ \A k \in DOMAIN DefaultLabels \ DOMAIN labels :
               effective_labels[k] = DefaultLabels[k]

\* C3 (amended): after SetLabelsDiff the new effective_labels agrees with
\* DefaultLabels merged with the user labels (user value winning) on every
\* key of the two, and besides those keys it holds exactly the keys of the
\* old effective_labels that were not in the old terraform_labels, each
\* with its old value.
C3_EffectiveKeepsForeignKeys ==
    RanDiff =>
        /\ \A k \in DOMAIN labels :
               k \in DOMAIN effective_labels /\ effective_labels[k] = labels[k]
        /\ \A k \in DOMAIN DefaultLabels \ DOMAIN labels :
               k \in DOMAIN effective_labels /\ effective_labels[k] = DefaultLabels[k]
        /\ \A k \in DOMAIN effective_labels \ (DOMAIN DefaultLabels \cup DOMAIN labels) :
               /\ k \in DOMAIN o_effective_labels \ DOMAIN o_terraform_labels
               /\ effective_labels[k] = o_effective_labels[k]
        /\ \A k \in DOMAIN o_effective_labels \ DOMAIN o_terraform_labels :
               k \in DOMAIN effective_labels

C3_Witness ==
    /\ RanDiff
    /\ \E k \in DOMAIN DefaultLabels \cap DOMAIN labels : DefaultLabels[k] # labels[k]
    /\ \E k \in DOMAIN effective_labels : k \notin DOMAIN DefaultLabels \cup DOMAIN labels

\* C4: a second SetLabelsDiff pass for the same user labels (U1 -> U1),
\* run on the state the first pass (U0 -> U1) produced, leaves
\* terraform_labels and effective_labels as the first pass set them.
C4_SecondPassIdempotent ==
    (/\ LastOp = "SetLabelsDiff" /\ PrevOp = "SetLabelsDiff"
     /\ ~labelsNil /\ ~o_labelsNil
     /\ labels = o_labels)
    => /\ terraform_labels = o_terraform_labels
       /\ effective_labels = o_effective_labels

C4_Witness ==
    /\ LastOp = "SetLabelsDiff" /\ PrevOp = "SetLabelsDiff"
    /\ ~labelsNil /\ ~o_labelsNil
    /\ labels = o_labels
    /\ \E k \in DOMAIN DefaultLabels \cap DOMAIN labels : DefaultLabels[k] # labels[k]
    /\ DOMAIN effective_labels # DOMAIN terraform_labels

C6_ReadWritesOnlyDeclaredKeys ==
    LastOp = "SetLabels" =>
        /\ DOMAIN labels \subseteq DOMAIN o_labels
        /\ DOMAIN terraform_labels \subseteq DOMAIN o_terraform_labels

C6_Witness ==
    /\ LastOp = "SetLabels"
    /\ ~remoteNil
    /\ labels # EmptyMap
    /\ \E k \in DOMAIN remoteLabels : k \notin DOMAIN o_terraform_labels

\* C14 (as stated): the label functions treat a nil input as an empty
\* map: SetLabels leaves "labels" and "terraform_labels" as it would for an
\* empty non-nil remote map, and SetLabelsDiff leaves terraform_labels and
\* effective_labels as it would for an empty labels map.
C14_NilTreatedAsEmpty ==
    /\ (LastOp = "SetLabels" /\ remoteNil) =>
           /\ labels = SetLabelsValue(EmptyMap, FALSE, o_labels)
           /\ terraform_labels = SetLabelsValue(EmptyMap, FALSE, o_terraform_labels)
    /\ (LastOp = "SetLabelsDiff" /\ labelsNil) =>
           /\ terraform_labels = terraformLabels(DefaultLabels, EmptyMap)
           /\ effective_labels =
                effectiveLabels(o_terraform_labels, terraform_labels, o_effective_labels)

\* C14 (amended): SetLabels writes the empty map to "labels" and
\* "terraform_labels" for a nil remote map, and for an empty non-nil remote
\* map it writes every key the field held, each with the value "".
\* SetLabelsDiff leaves terraform_labels and effective_labels as they were
\* for a nil labels value, and for an empty labels map it sets
\* terraform_labels to DefaultLabels and effective_labels to hold every
\* default with its value and no key that only the old terraform_labels had.
C14_NilDiffersFromEmpty ==
    /\ (LastOp = "SetLabels" /\ remoteNil) =>
           labels = EmptyMap /\ terraform_labels = EmptyMap
    /\ (LastOp = "SetLabels" /\ ~remoteNil /\ remoteLabels = EmptyMap) =>
           /\ DOMAIN labels = DOMAIN o_labels
           /\ \A k \in DOMAIN labels : labels[k] = ""
           /\ DOMAIN terraform_labels = DOMAIN o_terraform_labels
           /\ \A k \in DOMAIN terraform_labels : terraform_labels[k] = ""
    /\ (LastOp = "SetLabelsDiff" /\ labelsNil) =>
           /\ terraform_labels = o_terraform_labels
           /\ effective_labels = o_effective_labels
    /\ (LastOp = "SetLabelsDiff" /\ ~labelsNil /\ labels = EmptyMap) =>
           /\ terraform_labels = DefaultLabels
           /\ \A k \in DOMAIN DefaultLabels :
                  k \in DOMAIN effective_labels /\ effective_labels[k] = DefaultLabels[k]
           /\ \A k \in DOMAIN o_terraform_labels \ DOMAIN DefaultLabels :
                  k \notin DOMAIN effective_labels

C14_Witness ==
    /\ lblOps = <<"SetLabelsDiff", "SetLabels">>
    /\ labelsNil
    /\ remoteNil
    /\ DefaultLabels # EmptyMap
    /\ o_terraform_labels # DefaultLabels
    /\ o_terraform_labels # EmptyMap

(***************************************************************************)
(* resourceStorageBucketDelete                                             *)
(***************************************************************************)

\* An object version: Objects.Delete addresses it by name and generation.
\* Versions 1 and 2 are two generations of one name, 3 and 4 of the next.
ObjectVersions ==
    {[name |-> (i + 1) \div 2, generation |-> i] : i \in 1..NumObjects}

\* The listing of a set of object versions, in the order of the API
\* (by name, then by generation).
RECURSIVE Listing(_)
Listing(S) ==
    IF S = {} THEN <<>>
    ELSE LET first == CHOOSE o \in S : \A p \in S : o.generation <= p.generation
         IN  <<first>> \o Listing(S \ {first})

\* workerpool.New(runtime.NumCPU() - 1): a pool has at least one worker
PoolSize == IF numCPU - 1 < 1 THEN 1 ELSE numCPU - 1

\* a call counter, saturating at MaxCalls ("MaxCalls or more")
Bump(n) == IF n < MaxCalls THEN n + 1 ELSE MaxCalls

DeleteInit ==
    /\ LabelsIdle
    /\ BucketIdle
    /\ force_destroy \in BOOLEAN
    /\ numCPU \in 1..MaxCPU
    /\ bucketObjects \in SUBSET ObjectVersions
    /\ everPresent = bucketObjects
    /\ pc = "list"
    /\ items = <<>>
    /\ nextItem = 1
    /\ waiting = <<>>
    /\ running = {}
    /\ deleteCalls = [o \in ObjectVersions |-> 0]
    /\ failedDeletes = {}
    /\ listed = {}
    /\ bucketDeleteCalls = 0
    /\ bucketOutcomes = <<>>
    /\ lastList = "none"
    /\ err = "none"

\* Objects.List whose error is dropped: Delete goes on as if the listing
\* were empty
ObjectsListMutIgnoreError(ok) ==
    /\ pc = "list"
    /\ items' = IF ok THEN Listing(bucketObjects) ELSE <<>>
    /\ listed' = IF ok THEN listed \cup bucketObjects ELSE listed
    /\ lastList' = IF ok THEN "ok" ELSE "error"
    /\ pc' = "check"
    /\ UNCHANGED <<force_destroy, numCPU, bucketObjects, everPresent, nextItem,
                   waiting, running, deleteCalls, failedDeletes, bucketDeleteCalls,
                   bucketOutcomes, err>>
    /\ UNCHANGED <<lblVars, bktVars>>

\* line 513-517: Objects.List(bucket).Versions(true).Do()
ObjectsList(ok) ==
    /\ pc = "list"
    /\ IF ok
       THEN /\ items' = Listing(bucketObjects)
            /\ listed' = listed \cup bucketObjects
            /\ lastList' = "ok"
            /\ pc' = "check"
            /\ err' = err
       ELSE /\ err' = "ListError"
            /\ lastList' = "error"
            /\ pc' = "done"
            /\ UNCHANGED <<items, listed>>
    /\ UNCHANGED <<force_destroy, numCPU, bucketObjects, everPresent, nextItem,
                   waiting, running, deleteCalls, failedDeletes, bucketDeleteCalls,
                   bucketOutcomes>>
    /\ UNCHANGED <<lblVars, bktVars>>

\* lines 519-564: the branch on len(res.Items) and force_destroy
CheckItemsMutAlwaysForce ==
    /\ pc = "check"
    /\ IF Len(items) # 0
       THEN /\ pc' = "submit"
            /\ nextItem' = 1
            /\ err' = err
       ELSE /\ pc' = "bucketDelete"
            /\ UNCHANGED <<nextItem, err>>
    /\ UNCHANGED <<force_destroy, numCPU, bucketObjects, everPresent, items, waiting,
                   running, deleteCalls, failedDeletes, listed, bucketDeleteCalls,
                   bucketOutcomes, lastList>>
    /\ UNCHANGED <<lblVars, bktVars>>

CheckItems ==
    /\ pc = "check"
    /\ IF Len(items) # 0
       THEN IF force_destroy
            THEN /\ pc' = "submit"
                 /\ nextItem' = 1
                 /\ err' = err
            ELSE /\ err' = "NotEmptyError"
                 /\ pc' = "done"
                 /\ nextItem' = nextItem
       ELSE /\ pc' = "bucketDelete"
            /\ UNCHANGED <<nextItem, err>>
    /\ UNCHANGED <<force_destroy, numCPU, bucketObjects, everPresent, items, waiting,
                   running, deleteCalls, failedDeletes, listed, bucketDeleteCalls,
                   bucketOutcomes, lastList>>
    /\ UNCHANGED <<lblVars, bktVars>>

\* lines 537-553: wp.Submit of the task for the next listed object
Submit ==
    /\ pc = "submit"
    /\ waiting' = Append(waiting, items[nextItem])
    /\ nextItem' = nextItem + 1
    /\ pc' = IF nextItem = Len(items) THEN "stopWait" ELSE "submit"
    /\ UNCHANGED <<force_destroy, numCPU, bucketObjects, everPresent, items, running,
                   deleteCalls, failedDeletes, listed, bucketDeleteCalls,
                   bucketOutcomes, lastList, err>>
    /\ UNCHANGED <<lblVars, bktVars>>

\* line 556: wp.StopWait() returns once every submitted task has run
StopWaitMutNoWait ==
    /\ pc = "stopWait"
    /\ pc' = "list"
    /\ UNCHANGED <<force_destroy, numCPU, bucketObjects, everPresent, items, nextItem,
                   waiting, running, deleteCalls, failedDeletes, listed,
                   bucketDeleteCalls, bucketOutcomes, lastList, err>>
    /\ UNCHANGED <<lblVars, bktVars>>

StopWait ==
    /\ pc = "stopWait"
    /\ waiting = <<>>
    /\ running = {}
    /\ pc' = "list"
    /\ UNCHANGED <<force_destroy, numCPU, bucketObjects, everPresent, items, nextItem,
                   waiting, running, deleteCalls, failedDeletes, listed,
                   bucketDeleteCalls, bucketOutcomes, lastList, err>>
    /\ UNCHANGED <<lblVars, bktVars>>

\* Buckets.Delete retried after every error, not only after a 429
BucketsDeleteMutRetryAny(outcome, retry) ==
    /\ pc = "bucketDelete"
    /\ outcome = "ok" => bucketObjects = {}
    /\ outcome = "409" => bucketObjects # {}
    /\ retry => outcome # "ok" /\ bucketDeleteCalls < MaxRetries
    /\ bucketDeleteCalls' = bucketDeleteCalls + 1
    /\ bucketOutcomes' = Append(bucketOutcomes, outcome)
    /\ IF outcome = "ok"
       THEN pc' = "done" /\ err' = "nil"
       ELSE IF retry
            THEN pc' = "bucketDelete" /\ err' = err
            ELSE pc' = "done" /\ err' = outcome
    /\ UNCHANGED <<force_destroy, numCPU, bucketObjects, everPresent, items, nextItem,
                   waiting, running, deleteCalls, failedDeletes, listed, lastList>>
    /\ UNCHANGED <<lblVars, bktVars>>

\* lines 568-585: Buckets.Delete(bucket).Do() inside resource.Retry.
\* outcome: "ok", "429" (rate limited), "409" (bucket not empty), "403".
\* retry: after a 429, whether the minute of resource.Retry still allows
\* another attempt.
BucketsDelete(outcome, retry) ==
    /\ pc = "bucketDelete"
    /\ outcome = "ok" => bucketObjects = {}
    /\ outcome = "409" => bucketObjects # {}
    /\ retry => outcome = "429" /\ bucketDeleteCalls < MaxRetries
    /\ bucketDeleteCalls' = bucketDeleteCalls + 1
    /\ bucketOutcomes' = Append(bucketOutcomes, outcome)
    /\ IF outcome = "ok"
       THEN pc' = "done" /\ err' = "nil"
       ELSE IF outcome = "429" /\ retry
            THEN pc' = "bucketDelete" /\ err' = err
            ELSE pc' = "done" /\ err' = outcome
    /\ UNCHANGED <<force_destroy, numCPU, bucketObjects, everPresent, items, nextItem,
                   waiting, running, deleteCalls, failedDeletes, listed, lastList>>
    /\ UNCHANGED <<lblVars, bktVars>>

\* the pool: a free worker takes the oldest waiting task
WorkerStart ==
    /\ waiting # <<>>
    /\ Cardinality(running) < PoolSize
    /\ running' = running \cup {Head(waiting)}
    /\ waiting' = Tail(waiting)
    /\ UNCHANGED <<force_destroy, numCPU, bucketObjects, everPresent, pc, items,
                   nextItem, deleteCalls, failedDeletes, listed, bucketDeleteCalls,
                   bucketOutcomes, lastList, err>>
    /\ UNCHANGED <<lblVars, bktVars>>

\* lines 541-552: the task: Objects.Delete(bucket, name).Generation(gen).Do();
\* an error is logged and dropped
WorkerDelete(o, ok) ==
    /\ o \in running
    /\ deleteCalls' = [deleteCalls EXCEPT ![o] = Bump(@)]
    /\ IF ok /\ o \in bucketObjects
       THEN /\ bucketObjects' = bucketObjects \ {o}
            /\ failedDeletes' = failedDeletes
       ELSE /\ bucketObjects' = bucketObjects
            /\ failedDeletes' = failedDeletes \cup {o}
    /\ running' = running \ {o}
    /\ UNCHANGED <<force_destroy, numCPU, everPresent, pc, items, nextItem, waiting,
                   listed, bucketDeleteCalls,
                   bucketOutcomes, lastList, err>>
    /\ UNCHANGED <<lblVars, bktVars>>

\* another actor writes a new object version while Delete runs
OtherActorAdds(o) ==
    /\ pc \notin {"idle", "done"}
    /\ o \notin everPresent
    /\ bucketObjects' = bucketObjects \cup {o}
    /\ everPresent' = everPresent \cup {o}
    /\ UNCHANGED <<force_destroy, numCPU, pc, items, nextItem, waiting, running,
                   deleteCalls, failedDeletes, listed, bucketDeleteCalls,
                   bucketOutcomes, lastList, err>>
    /\ UNCHANGED <<lblVars, bktVars>>

MainThread ==
    \/ \E ok \in BOOLEAN : ObjectsList(ok)
    \/ CheckItems
    \/ Submit
    \/ StopWait
    \/ \E outcome \in {"ok", "429", "409", "403"}, retry \in BOOLEAN :
           BucketsDelete(outcome, retry)

Workers ==
    \/ WorkerStart
    \/ \E o \in ObjectVersions, ok \in BOOLEAN : WorkerDelete(o, ok)

DeleteNext ==
    \/ MainThread
    \/ Workers
    \/ \E o \in ObjectVersions : OtherActorAdds(o)

DeleteSpec == DeleteInit /\ [][DeleteNext]_vars

\* the Go scheduler runs the calling goroutine and the pool's workers
FairDeleteSpec ==
    /\ DeleteInit
    /\ [][DeleteNext]_vars
    /\ WF_vars(MainThread)
    /\ WF_vars(Workers)

(***************************************************************************)
(* Claims about resourceStorageBucketDelete                                *)
(***************************************************************************)

BucketDeleteReached == pc = "bucketDelete" \/ bucketDeleteCalls > 0

\* C1 (as stated): with force_destroy, once Delete reaches Buckets.Delete it
\* has issued exactly one Objects.Delete call per listed object version and
\* none for any other, and no object-delete task is outstanding, whatever
\* the pool size and the outcomes of the object-delete calls.
C1_OneDeletePerListedVersion ==
    (force_destroy /\ BucketDeleteReached) =>
        /\ \A o \in ObjectVersions :
               deleteCalls[o] = IF o \in listed THEN 1 ELSE 0
        /\ waiting = <<>> /\ running = {}

\* C2: without force_destroy no Objects.Delete call is ever issued, and a
\* non-empty listing ends the call at once with the "without force_destroy"
\* error, no Buckets.Delete call issued.
C2_NotEmptyWithoutForce ==
    ~force_destroy /\ pc # "idle" =>
        /\ \A o \in ObjectVersions : deleteCalls[o] = 0
        /\ waiting = <<>> /\ running = {}
        /\ listed # {} =>
              /\ pc \in {"check", "done"}
              /\ bucketDeleteCalls = 0
              /\ pc = "done" => err = "NotEmptyError"

C2_Witness ==
    /\ ~force_destroy
    /\ pc = "done"
    /\ err = "NotEmptyError"
    /\ Len(items) > 1

\* C9 (as stated): once an Objects.Delete call has failed, Delete goes on
\* to issue the Buckets.Delete call (unless a later Objects.List call
\* fails, which ends Delete with that error).
C9_FailedDeleteLeadsToBucketDelete ==
    [](failedDeletes # {} => <>(bucketDeleteCalls > 0 \/ err = "ListError"))

\* C10: no submitted task is waiting or running when Delete issues an
\* Objects.List call, evaluates its result, issues Buckets.Delete or has
\* returned.
C10_PoolDrained ==
    pc \in {"list", "check", "bucketDelete", "done"} =>
        waiting = <<>> /\ running = {}

C10_Witness ==
    /\ pc = "list"
    /\ PoolSize >= 2
    /\ Cardinality({o \in ObjectVersions : deleteCalls[o] > 0}) >= 2
    /\ failedDeletes # {}

\* C11: a Buckets.Delete call is followed by another one only when it
\* answered 429; any other error ends Delete with that error and success
\* ends it with no error, in both cases with no further call.
C11_RetryOnlyAfter429 ==
    LET n == Len(bucketOutcomes) IN
    /\ bucketDeleteCalls = n
    /\ \A i \in 1..(n - 1) : bucketOutcomes[i] = "429"
    /\ n > 0 =>
          /\ pc \in {"bucketDelete", "done"}
          /\ pc = "bucketDelete" => bucketOutcomes[n] = "429"
          /\ pc = "done" =>
                err = IF bucketOutcomes[n] = "ok" THEN "nil" ELSE bucketOutcomes[n]

C11_Witness ==
    /\ pc = "done"
    /\ bucketOutcomes = <<"429", "403">>
    /\ err = "403"

\* C15: Buckets.Delete is reached only when the last Objects.List call
\* succeeded with no items; after a failed Objects.List call Delete has
\* returned that error, no Buckets.Delete call has been issued, and no
\* Objects.Delete or Buckets.Delete call is issued from then on.
C15_BucketDeleteOnlyAfterEmptyListing ==
    /\ [](BucketDeleteReached => lastList = "ok" /\ items = <<>>)
    /\ [](lastList = "error" =>
             /\ pc = "done" /\ err = "ListError"
             /\ waiting = <<>> /\ running = {}
             /\ bucketDeleteCalls = 0)
    /\ [][lastList = "error" =>
             deleteCalls' = deleteCalls /\ bucketDeleteCalls' = bucketDeleteCalls]_vars

C15_Witness ==
    /\ lastList = "error"
    /\ pc = "done"
    /\ \E o \in ObjectVersions : deleteCalls[o] > 0

(***************************************************************************)
(* resourceStorageBucketCreate and resourceStorageBucketUpdate             *)
(***************************************************************************)

\* a website block written without arguments reaches the code as nil
NilBlock == [nil |-> TRUE]
Page == [main_page_suffix |-> "index.html", not_found_page |-> "404.html"]

\* The values of the fields in the schema (lines 32-255).  versioning,
\* logging and encryption have MaxItems 1; website has no MaxItems; every
\* lifecycle rule has exactly one action and one condition.
FieldValues(f) ==
    CASE f = "lifecycle_rule" -> {<<>>, <<"rule">>}
      [] f = "requester_pays" -> BOOLEAN
      [] f = "versioning"     -> {<<>>, <<[enabled |-> TRUE]>>}
      [] f = "website"        -> {<<>>, <<NilBlock>>}
                                 \cup {[i \in 1..n |-> Page] : n \in 1..MaxWebsiteBlocks}
      [] f = "cors"           -> {<<>>, <<"cors">>}
      [] f = "logging"        -> {<<>>, <<"log">>}
      [] f = "encryption"     -> {<<>>, <<"key">>}
      [] f = "labels"         -> MapsOver(Keys, PriorVals)

Fields == {"lifecycle_rule", "requester_pays", "versioning", "website", "cors",
           "logging", "encryption", "labels"}

Configs ==
    [lifecycle_rule : FieldValues("lifecycle_rule"),
     requester_pays : FieldValues("requester_pays"),
     versioning     : FieldValues("versioning"),
     website        : FieldValues("website"),
     cors           : FieldValues("cors"),
     logging        : FieldValues("logging"),
     encryption     : FieldValues("encryption"),
     labels         : FieldValues("labels")]

\* the configurations that differ from c in at most n fields
RECURSIVE Changed(_, _)
Changed(c, n) ==
    IF n = 0 THEN {c}
    ELSE LET fewer == Changed(c, n - 1)
         IN  fewer \cup UNION {{[d[1] EXCEPT ![d[2]] = v] : v \in FieldValues(d[2])} :
                                   d \in fewer \X Fields}

EmptyConfig ==
    [lifecycle_rule |-> <<>>, requester_pays |-> FALSE, versioning |-> <<>>,
     website |-> <<>>, cors |-> <<>>, logging |-> <<>>, encryption |-> <<>>,
     labels |-> EmptyMap]

\* d.HasChange(f) for the stored configuration old and the new one new
HasChange(old, new, f) == old[f] # new[f]

\* the ok of d.GetOk(f): the value is not the zero value of its type
GetOk(new, f) == new[f] # EmptyConfig[f]

\* the storage.Bucket of line 350, no field set
EmptyBucket ==
    [Lifecycle |-> <<>>, Billing |-> <<>>, Versioning |-> <<>>, Website |-> <<>>,
     Cors |-> <<>>, Logging |-> <<>>, Encryption |-> <<>>, Labels |-> EmptyMap,
     NullFields |-> {}, ForceSendFields |-> {}]

\* resourceGCSBucketLifecycleCreateOrUpdate (lines 745-822): sb.Lifecycle
LifecycleCreateOrUpdate(new) ==
    IF GetOk(new, "lifecycle_rule")
    THEN <<[Rule |-> new.lifecycle_rule, ForceSendFields |-> {}]>>
    ELSE <<[Rule |-> <<>>, ForceSendFields |-> {"Rule"}]>>

\* lines 352-356
PatchLifecycle(old, new) ==
    IF HasChange(old, new, "lifecycle_rule") THEN LifecycleCreateOrUpdate(new) ELSE <<>>

\* lines 358-364
PatchBilling(old, new) ==
    IF HasChange(old, new, "requester_pays")
    THEN <<[RequesterPays |-> new.requester_pays, ForceSendFields |-> {"RequesterPays"}]>>
    ELSE <<>>

\* expandBucketVersioning (lines 682-692)
expandBucketVersioning(v) ==
    <<[Enabled |-> v[1].enabled, ForceSendFields |-> {"Enabled"}]>>

\* lines 366-370
PatchVersioning(old, new) ==
    IF HasChange(old, new, "versioning") /\ GetOk(new, "versioning")
    THEN expandBucketVersioning(new.versioning)
    ELSE <<>>

\* lines 372-401: the error of the website branch, "nil" when it has none.
\* Under GetOk the list is not empty, so the branch of line 382 is entered
\* only for a nil first block, where sb.Website is still a nil pointer.
WebsiteCheck(old, new) ==
    IF HasChange(old, new, "website") /\ GetOk(new, "website")
    THEN IF Len(new.website) > 1 THEN "WebsiteError"
         ELSE IF new.website[1] = NilBlock THEN "panic"
         ELSE "nil"
    ELSE "nil"

\* lines 386-398
PatchWebsite(old, new) ==
    IF HasChange(old, new, "website") /\ GetOk(new, "website")
       /\ WebsiteCheck(old, new) = "nil"
    THEN <<[NotFoundPage |-> new.website[1].not_found_page,
            MainPageSuffix |-> new.website[1].main_page_suffix]>>
    ELSE <<>>

\* lines 403-405: no d.HasChange guards cors
PatchCors(old, new) ==
    IF GetOk(new, "cors") THEN new.cors ELSE <<>>

\* lines 407-413 and 415-421, for f = "logging" and f = "encryption"
PatchBlock(old, new, f) ==
    IF HasChange(old, new, f) /\ GetOk(new, f) THEN new[f] ELSE <<>>

\* lines 423-424
PatchLabels(old, new) ==
    IF HasChange(old, new, "labels") THEN new.labels ELSE EmptyMap

\* sb.NullFields without the loop over the old labels
PatchNullFieldsMutNoKeyMarkers(old, new) ==
    (IF HasChange(old, new, "logging") /\ ~GetOk(new, "logging")
     THEN {<<"Logging">>} ELSE {})
    \cup
    (IF HasChange(old, new, "encryption") /\ ~GetOk(new, "encryption")
     THEN {<<"Encryption">>} ELSE {})
    \cup
    (IF HasChange(old, new, "labels") /\ Cardinality(DOMAIN new.labels) = 0
     THEN {<<"Labels">>} ELSE {})

\* lines 411, 419 and 425-436: sb.NullFields
PatchNullFields(old, new) ==
    (IF HasChange(old, new, "logging") /\ ~GetOk(new, "logging")
     THEN {<<"Logging">>} ELSE {})
    \cup
    (IF HasChange(old, new, "encryption") /\ ~GetOk(new, "encryption")
     THEN {<<"Encryption">>} ELSE {})
    \cup
    (IF HasChange(old, new, "labels")
     THEN (IF Cardinality(DOMAIN new.labels) = 0 THEN {<<"Labels">>} ELSE {})
          \cup {<<"Labels", k>> : k \in DOMAIN old.labels \ DOMAIN new.labels}
     ELSE {})

\* the storage.Bucket that resourceStorageBucketUpdate passes to Buckets.Patch
UpdateBucket(old, new) ==
    [Lifecycle       |-> PatchLifecycle(old, new),
     Billing         |-> PatchBilling(old, new),
     Versioning      |-> PatchVersioning(old, new),
     Website         |-> PatchWebsite(old, new),
     Cors            |-> PatchCors(old, new),
     Logging         |-> PatchBlock(old, new, "logging"),
     Encryption      |-> PatchBlock(old, new, "encryption"),
     Labels          |-> PatchLabels(old, new),
     NullFields      |-> PatchNullFields(old, new),
     ForceSendFields |-> {}]

\* lines 291-309: the error of the website branch of Create; the type
\* assertion of line 300 panics on a nil block
CreateWebsiteCheck(new) ==
    IF GetOk(new, "website")
    THEN IF Len(new.website) > 1 THEN "WebsiteError"
         ELSE IF new.website[1] = NilBlock THEN "panic"
         ELSE "nil"
    ELSE "nil"

\* lines 273-327: the storage.Bucket that Create passes to Buckets.Insert
CreateBucket(new) ==
    [Lifecycle       |-> LifecycleCreateOrUpdate(new),
     Billing         |-> IF GetOk(new, "requester_pays")
                         THEN <<[RequesterPays |-> new.requester_pays,
                                 ForceSendFields |-> {}]>>
                         ELSE <<>>,
     Versioning      |-> IF GetOk(new, "versioning")
                         THEN expandBucketVersioning(new.versioning) ELSE <<>>,
     Website         |-> IF GetOk(new, "website") /\ CreateWebsiteCheck(new) = "nil"
                         THEN <<[NotFoundPage |-> new.website[1].not_found_page,
                                 MainPageSuffix |-> new.website[1].main_page_suffix]>>
                         ELSE <<>>,
     Cors            |-> IF GetOk(new, "cors") THEN new.cors ELSE <<>>,
     Logging         |-> IF GetOk(new, "logging") THEN new.logging ELSE <<>>,
     Encryption      |-> IF GetOk(new, "encryption") THEN new.encryption ELSE <<>>,
     Labels          |-> new.labels,
     NullFields      |-> {},
     ForceSendFields |-> {}]

BucketInit ==
    /\ LabelsIdle
    /\ DeleteIdle
    /\ created = FALSE
    /\ state = EmptyConfig
    /\ prior = EmptyConfig
    /\ config = EmptyConfig
    /\ bktOp = "none"
    /\ projectOk = FALSE
    /\ sb = EmptyBucket
    /\ insertCalls = 0
    /\ patchCalls = 0
    /\ bktErr = "none"

\* resourceStorageBucketCreate (lines 260-345) for the configuration new.
\* project: getProject succeeds.  transient: the Buckets.Insert attempts
\* that fail with an error retry() repeats.  insertOk: the last attempt
\* succeeds.  A failed Create leaves the resource without id and without
\* stored configuration, as it was before the call: the model follows one
\* Create call.
Create(new, project, transient, insertOk) ==
    /\ ~created
    /\ bktOp = "none"
    /\ bktOp' = "Create"
    /\ prior' = state
    /\ config' = new
    /\ projectOk' = project
    /\ patchCalls' = 0
    /\ LET check == CreateWebsiteCheck(new)
       IN  IF ~project \/ check # "nil"
           THEN /\ bktErr' = IF ~project THEN "ProjectError" ELSE check
                /\ insertCalls' = 0
                /\ sb' = EmptyBucket
                /\ UNCHANGED <<created, state>>
           ELSE /\ insertCalls' = transient + 1
                /\ sb' = CreateBucket(new)
                /\ IF insertOk
                   THEN bktErr' = "nil" /\ created' = TRUE /\ state' = new
                   ELSE bktErr' = "InsertError" /\ UNCHANGED <<created, state>>
    /\ UNCHANGED <<lblVars, delVars>>

\* resourceStorageBucketUpdate (lines 347-452) for the configuration new;
\* patchOk: Buckets.Patch succeeds.  Update never calls d.Partial, so the
\* framework stores the new configuration when Update returns, with or
\* without an error; a panic ends the process and stores nothing.
Update(new, patchOk) ==
    /\ created
    /\ new # state
    /\ bktOp' = "Update"
    /\ prior' = state
    /\ config' = new
    /\ insertCalls' = 0
    /\ LET check == WebsiteCheck(state, new)
       IN  IF check # "nil"
           THEN /\ bktErr' = check
                /\ patchCalls' = 0
                /\ sb' = EmptyBucket
                /\ state' = IF check = "panic" THEN state ELSE new
           ELSE /\ patchCalls' = 1
                /\ sb' = UpdateBucket(state, new)
                /\ bktErr' = IF patchOk THEN "nil" ELSE "PatchError"
                /\ state' = new
    /\ UNCHANGED <<created, projectOk>>
    /\ UNCHANGED <<lblVars, delVars>>

BucketNext ==
    \/ \E new \in Configs, project \in BOOLEAN, transient \in 0..MaxRetries,
          insertOk \in BOOLEAN : Create(new, project, transient, insertOk)
    \/ \E new \in Changed(state, MaxChanged), patchOk \in BOOLEAN : Update(new, patchOk)

BucketSpec == BucketInit /\ [][BucketNext]_vars

(***************************************************************************)
(* Claims about resourceStorageBucketCreate / resourceStorageBucketUpdate  *)
(***************************************************************************)

\* the list- and map-valued fields and the storage.Bucket field of each
ClearableFields == {"lifecycle_rule", "versioning", "website", "cors", "logging",
                    "encryption", "labels"}

GoField(f) ==
    CASE f = "lifecycle_rule" -> "Lifecycle"
      [] f = "versioning"     -> "Versioning"
      [] f = "website"        -> "Website"
      [] f = "cors"           -> "Cors"
      [] f = "logging"        -> "Logging"
      [] f = "encryption"     -> "Encryption"
      [] f = "labels"         -> "Labels"

\* the patch b asks the API to clear field f: the field is named in
\* NullFields or ForceSendFields, or (lifecycle) it is sent with its empty
\* Rule list force-sent
MarkedForNullOut(b, f) ==
    \/ <<GoField(f)>> \in b.NullFields
    \/ GoField(f) \in b.ForceSendFields
    \/ f = "lifecycle_rule" /\ b.Lifecycle # <<>>
       /\ b.Lifecycle[1].Rule = <<>> /\ "Rule" \in b.Lifecycle[1].ForceSendFields

\* C7 (as stated): whenever Update sends a patch, every list- or map-valued
\* field whose configuration went from non-empty to empty is marked in the
\* patch for explicit null-out.
C7_ClearedFieldsMarkedNull ==
    (bktOp = "Update" /\ patchCalls > 0) =>
        \A f \in ClearableFields :
            (prior[f] # EmptyConfig[f] /\ config[f] = EmptyConfig[f])
                => MarkedForNullOut(sb, f)

\* C8 (as stated): a configuration with more than one website block makes
\* Create (once the project is resolved) and Update return the "At most
\* one website block is allowed" error with no Buckets.Insert and no
\* Buckets.Patch call issued.
C8_TwoWebsiteBlocksRejected ==
    /\ (bktOp = "Create" /\ Len(config.website) > 1) =>
           /\ insertCalls = 0
           /\ projectOk => bktErr = "WebsiteError"
    /\ (bktOp = "Update" /\ Len(config.website) > 1) =>
           /\ patchCalls = 0
           /\ bktErr = "WebsiteError"

\* C12: when Update sends a patch for changed labels, the patch carries the
\* marker "Labels.<key>" for every key of the old labels that the new
\* labels lack, and for no key that the new labels have.
C12_RemovedLabelKeysMarkedNull ==
    (bktOp = "Update" /\ patchCalls > 0 /\ prior.labels # config.labels) =>
        /\ \A k \in DOMAIN prior.labels \ DOMAIN config.labels :
               <<"Labels", k>> \in sb.NullFields
        /\ \A k \in DOMAIN config.labels : <<"Labels", k>> \notin sb.NullFields

C12_Witness ==
    /\ bktOp = "Update"
    /\ patchCalls > 0
    /\ DOMAIN prior.labels \ DOMAIN config.labels # {}
    /\ DOMAIN prior.labels \cap DOMAIN config.labels # {}

\* C13 (as stated): the patch that Update sends populates only changed
\* fields: each of lifecycle_rule, requester_pays, versioning, website,
\* cors, logging, encryption and labels whose old and new values are equal
\* is left unset in the patch, with no NullFields marker either.
C13_OnlyChangedFieldsPopulated ==
    (bktOp = "Update" /\ patchCalls > 0) =>
        /\ prior.lifecycle_rule = config.lifecycle_rule => sb.Lifecycle = <<>>
        /\ prior.requester_pays = config.requester_pays => sb.Billing = <<>>
        /\ prior.versioning = config.versioning => sb.Versioning = <<>>
        /\ prior.website = config.website => sb.Website = <<>>
        /\ prior.cors = config.cors => sb.Cors = <<>>
        /\ prior.logging = config.logging =>
               sb.Logging = <<>> /\ <<"Logging">> \notin sb.NullFields
        /\ prior.encryption = config.encryption =>
               sb.Encryption = <<>> /\ <<"Encryption">> \notin sb.NullFields
        /\ prior.labels = config.labels =>
               /\ sb.Labels = EmptyMap
               /\ \A m \in sb.NullFields : m[1] # "Labels"

====
